---- MODULE Spec2Model ----
(***************************************************************************)
(* HiyaDrive booking orchestrators as a state machine.                     *)
(*                                                                         *)
(* One session is modelled at a time, except where sessions are run side  *)
(* by side on the module-level voice processor (`sessions`).               *)
(* `state` is the DrivingBookingState                                      *)
(* object the step handlers mutate, `result` the object the public entry   *)
(* point hands back to its caller, `pc` the position of the session in the *)
(* workflow.  The settings flags, max_retries and the initial utterance    *)
(* are chosen in Init and never change afterwards.  The answers of the     *)
(* external collaborators (LLM, places, telephony, microphone) are chosen  *)
(* with \E inside the step that awaits them.                               *)
(*                                                                         *)
(* The graph workflows are run by the LangGraph library: a node is run,    *)
(* then its static edge or its router selects the next node.  The model    *)
(* takes the node handlers to work on the one state object (as their code  *)
(* reads) and does not model the recursion limit of the library.           *)
(***************************************************************************)
EXTENDS Integers, Sequences, FiniteSets, TLC

VARIABLES
    orch,                   \* which orchestrator class runs the session
    demo_mode,              \* settings.demo_mode
    use_mock_places,        \* settings.use_mock_places
    use_mock_twilio,        \* settings.use_mock_twilio
    use_mock_calendar,      \* settings.use_mock_calendar
    max_conversation_turns, \* settings.max_conversation_turns
    last_utterance,         \* the initial utterance of the session
    pc,                     \* position of the session in its workflow
    state,                  \* the DrivingBookingState of the session
    result,                 \* the state object returned to the caller
    route,                  \* label returned by the router evaluated last
    exc,                    \* exception raised by a step handler, if any
    goodbyes,               \* end-of-session notifications spoken so far
    loc,                    \* local variables of the session and its calendar checks
    voice_processor,        \* the module-level voice processor (its mock STT)
    sessions                \* the sessions run side by side, if any

vars == <<orch, demo_mode, use_mock_places, use_mock_twilio, use_mock_calendar,
          max_conversation_turns, last_utterance, pc, state, result,
          route, exc, goodbyes, loc, voice_processor, sessions>>

\* what only sessions run side by side touch
shared == <<voice_processor, sessions>>

config == <<orch, demo_mode, use_mock_places, use_mock_twilio, use_mock_calendar,
            max_conversation_turns, last_utterance>>

-----------------------------------------------------------------------------
(* Bounds of the model *)

MaxRetriesBound == 2
MaxTurnsBound == 2
MaxListens == 3
MaxAttemptsBound == 4
MaxCandidates == 4
MaxSessions == 2

-----------------------------------------------------------------------------
(* Values *)

None == "None"

ACTIVE == "active"
COMPLETED == "completed"
FAILED == "failed"
TIMEOUT == "timeout"
CANCELLED == "cancelled"

SessionStatus == {ACTIVE, COMPLETED, FAILED, TIMEOUT, CANCELLED}

Restaurant(n, r) == [name |-> n, rating |-> r]

\* selected_restaurant = None
NoRestaurant == Restaurant(None, 0)

\* nothing has been returned to the caller yet
NoResult == [status |-> None]

\* ratings are kept in tenths of a star
mock_restaurants ==
    << Restaurant("Olive Garden", 42),
       Restaurant("Restaurant 2", 45),
       Restaurant("Restaurant 3", 41) >>

\* An utterance is kept as the keywords the demo parser looks for.
DefaultUtterance ==
    [party |-> None, cuisine |-> None, near |-> None, day |-> None, hour |-> None]

Utterances ==
    { DefaultUtterance,
      [party |-> "4", cuisine |-> "Sushi", near |-> "Cambridge", day |-> "tomorrow", hour |-> "20:00"] }

\* MockSTT: the responses it cycles through, as the keywords the demo
\* parser finds in them
test_responses ==
    << [party |-> None, cuisine |-> "Italian", near |-> None, day |-> "next Friday", hour |-> "19:00"],
       [party |-> "4", cuisine |-> "Sushi", near |-> "boston", day |-> None, hour |-> None],
       [party |-> None, cuisine |-> "French", near |-> None, day |-> "tomorrow", hour |-> "20:00"] >>

\* voice_processor = VoiceProcessor(): one instance per process, whose mock
\* STT starts at its first response
VoiceProcessor == [response_index |-> 0]

\* MockSTT.transcribe: the response at the index, and the index moves on
transcribe(vp) == test_responses[(vp.response_index % Len(test_responses)) + 1]

transcribed(vp) == [vp EXCEPT !.response_index = @ + 1]

\* What the LLM can answer to the intent prompt: every field either null or
\* a value.
IntentMissing(m) ==
    [party_size     |-> IF "party_size" \in m THEN None ELSE "2",
     cuisine_type   |-> IF "cuisine_type" \in m THEN None ELSE "Italian",
     location       |-> IF "location" \in m THEN None ELSE "Boston",
     date           |-> IF "date" \in m THEN None ELSE "2024-11-22",
     time           |-> IF "time" \in m THEN None ELSE "19:00"]

ParsedIntents ==
    { IntentMissing(m) : m \in { {}, {"location"},
                                 {"party_size", "cuisine_type", "location", "date", "time"} } }

-----------------------------------------------------------------------------
(* DrivingBookingState *)

DrivingBookingState(mr) ==
    [status               |-> ACTIVE,
     party_size           |-> None,
     requested_date       |-> None,
     requested_time       |-> None,
     cuisine_type         |-> None,
     location             |-> None,
     driver_calendar_free |-> FALSE,
     restaurant_candidates |-> << >>,
     selected_restaurant  |-> NoRestaurant,
     confirmation_number  |-> None,
     booking_confirmed    |-> FALSE,
     call_opening_script  |-> None,
     errors               |-> << >>,
     retry_count          |-> 0,
     max_retries          |-> mr,
     last_error           |-> None,
     turn_count           |-> 0,
     messages             |-> 0,
     twilio_call_sid      |-> None,
     call_connected       |-> FALSE]

add_error(s, error) ==
    [s EXCEPT !.errors = Append(@, error), !.last_error = error]

\* the transcript is kept as its length
add_message(s) == [s EXCEPT !.messages = @ + 1]

has_errors(s) == Len(s.errors) > 0

can_retry_inclusive(s) == s.retry_count <= s.max_retries

can_retry(s) == s.retry_count < s.max_retries

increment_retry(s) == [s EXCEPT !.retry_count = @ + 1]

increment_turn(s) == [s EXCEPT !.turn_count = @ + 1]

-----------------------------------------------------------------------------
(* BookingOrchestrator: the step handlers.  A handler is the set of states *)
(* it can leave behind, one per answer of the collaborator it calls.       *)

parse_intent_demo(s, u) ==
    [s EXCEPT !.party_size     = IF u.party = None THEN "2" ELSE u.party,
              !.cuisine_type   = IF u.cuisine = None THEN "Italian" ELSE u.cuisine,
              !.location       = IF u.near = None THEN "Boston" ELSE u.near,
              !.requested_date = IF u.day = None THEN "2024-11-22" ELSE u.day,
              !.requested_time = IF u.hour = None THEN "19:00" ELSE u.hour]

parse_intent_llm(s, intent) ==
    [s EXCEPT !.party_size     = intent.party_size,
              !.cuisine_type   = intent.cuisine_type,
              !.location       = intent.location,
              !.requested_date = intent.date,
              !.requested_time = IF intent.time = None THEN "19:00" ELSE intent.time]

parse_intent(s) ==
    IF demo_mode
    THEN { parse_intent_demo(s, last_utterance) }
    ELSE { parse_intent_llm(s, i) : i \in ParsedIntents }
         \cup { add_error(s, "Intent parsing failed") }

check_calendar(s) == { [s EXCEPT !.driver_calendar_free = TRUE] }

search_restaurants(s) ==
    IF use_mock_places \/ demo_mode
    THEN { [s EXCEPT !.restaurant_candidates = mock_restaurants] }
    ELSE { [s EXCEPT !.restaurant_candidates = << >>] }

select_restaurant_highest_rated(s) ==
    IF s.restaurant_candidates = << >>
    THEN { add_error(s, "No restaurants found") }
    ELSE { [s EXCEPT !.selected_restaurant =
              CHOOSE r \in { s.restaurant_candidates[i] : i \in 1..Len(s.restaurant_candidates) } :
                 \A j \in 1..Len(s.restaurant_candidates) :
                    s.restaurant_candidates[j].rating <= r.rating] }

select_restaurant(s) ==
    IF s.restaurant_candidates = << >>
    THEN { add_error(s, "No restaurants found") }
    ELSE { [s EXCEPT !.selected_restaurant = s.restaurant_candidates[1]] }

prepare_call(s) ==
    IF s.selected_restaurant = NoRestaurant
    THEN { add_error(s, "No restaurant selected") }
    ELSE IF demo_mode
         THEN { [s EXCEPT !.call_opening_script = "template"] }
         ELSE { [s EXCEPT !.call_opening_script = "llm"],
                [s EXCEPT !.call_opening_script = "template"] }

\* The log line that opens make_call reads selected_restaurant.name before
\* the handler tests that a restaurant is selected.
make_call_raises(s) == s.selected_restaurant = NoRestaurant

make_call(s) ==
    IF use_mock_twilio \/ demo_mode
    THEN { [s EXCEPT !.twilio_call_sid = "mock_call", !.call_connected = TRUE] }
    ELSE { [s EXCEPT !.call_connected = TRUE] }

converse_without_number(s) ==
    IF ~ s.call_connected
    THEN { add_error(s, "Call not connected") }
    ELSE IF demo_mode
         THEN { increment_turn(
                  [s EXCEPT !.messages = @ + 6,
                            !.booking_confirmed = TRUE]) }
         ELSE { increment_turn(
                  [add_message(s) EXCEPT !.booking_confirmed = FALSE]) }

converse(s) ==
    IF ~ s.call_connected
    THEN { add_error(s, "Call not connected") }
    ELSE IF demo_mode
         THEN { increment_turn(
                  [s EXCEPT !.messages = @ + 6,
                            !.confirmation_number = "4892",
                            !.booking_confirmed = TRUE]) }
         ELSE { increment_turn(
                  [add_message(s) EXCEPT !.booking_confirmed = FALSE]) }

confirm_booking(s) ==
    IF ~ s.booking_confirmed \/ s.selected_restaurant = NoRestaurant
    THEN { [add_error(s, "Cannot confirm incomplete booking") EXCEPT !.status = FAILED] }
    ELSE { [s EXCEPT !.status = COMPLETED] }

handle_error_marks_timeout(s) ==
    IF can_retry(s)
    THEN { increment_retry(s) }
    ELSE { [s EXCEPT !.status = TIMEOUT] }

handle_error_unguarded(s) == { increment_retry(s) }

handle_error_clears_errors(s) ==
    IF can_retry(s)
    THEN { [increment_retry(s) EXCEPT !.errors = << >>] }
    ELSE { [s EXCEPT !.status = FAILED] }

handle_error(s) ==
    IF can_retry(s)
    THEN { increment_retry(s) }
    ELSE { [s EXCEPT !.status = FAILED] }

route_conversation_errors_first(s) ==
    IF has_errors(s) THEN "error"
    ELSE IF s.booking_confirmed THEN "booking_confirmed"
    ELSE IF s.turn_count >= max_conversation_turns THEN "timeout"
    ELSE "need_alternatives"

route_conversation(s) ==
    IF s.booking_confirmed THEN "booking_confirmed"
    ELSE IF has_errors(s) THEN "error"
    ELSE IF s.turn_count >= max_conversation_turns THEN "timeout"
    ELSE "need_alternatives"

route_error_recovery_inclusive(s) ==
    IF s.retry_count <= s.max_retries THEN "retry"
    ELSE IF s.booking_confirmed THEN "fallback"
    ELSE "abandon"

route_error_recovery(s) ==
    IF can_retry(s) THEN "retry"
    ELSE IF s.booking_confirmed THEN "fallback"
    ELSE "abandon"

\* run_booking_session rebuilds the returned object from the workflow's
\* result field by field; a field it does not pass keeps its default.
reconstruct(s) ==
    [DrivingBookingState(s.max_retries) EXCEPT
        !.status = s.status,
        !.party_size = s.party_size,
        !.requested_date = s.requested_date,
        !.requested_time = s.requested_time,
        !.cuisine_type = s.cuisine_type,
        !.location = s.location,
        !.driver_calendar_free = s.driver_calendar_free,
        !.restaurant_candidates = s.restaurant_candidates,
        !.selected_restaurant = s.selected_restaurant,
        !.confirmation_number = s.confirmation_number,
        !.booking_confirmed = s.booking_confirmed,
        !.errors = s.errors,
        !.retry_count = s.retry_count,
        !.turn_count = s.turn_count,
        !.messages = s.messages,
        !.twilio_call_sid = s.twilio_call_sid,
        !.call_connected = s.call_connected]

-----------------------------------------------------------------------------
(* VoiceIntegratedOrchestrator: the step handlers *)

\* What places_service.search_restaurants can return: a non-empty list of
\* at most five restaurants (it raises instead of returning an empty one).
PlacesResults ==
    { << Restaurant("A", 42) >>,
      << Restaurant("A", 45), Restaurant("B", 45) >>,
      << Restaurant("A", 41), Restaurant("B", 42), Restaurant("C", 43), Restaurant("D", 47) >> }

\* max(candidates, key=rating): the first candidate of the highest rating
max_rating(candidates) ==
    LET best == CHOOSE i \in 1..Len(candidates) :
                /\ \A j \in 1..Len(candidates) : candidates[j].rating <= candidates[i].rating
                /\ \A j \in 1..(i - 1) : candidates[j].rating < candidates[i].rating
    IN  candidates[best]

voice_parse_intent(s) ==
    { parse_intent_llm(s, i) : i \in ParsedIntents }
    \cup { add_error(s, "Intent parsing failed") }

\* calendar_service.is_available answers True, answers False or raises
CalendarAnswers == {"free", "busy", "raises"}

\* a failure of the calendar service is logged and taken as available
voice_check_calendar_answer(s, answer) ==
    [s EXCEPT !.driver_calendar_free = (answer # "busy")]

voice_check_calendar(s) ==
    IF use_mock_calendar \/ demo_mode
    THEN { [s EXCEPT !.driver_calendar_free = TRUE] }
    ELSE { voice_check_calendar_answer(s, answer) : answer \in CalendarAnswers }

voice_search_restaurants(s) ==
    { [s EXCEPT !.restaurant_candidates = r] : r \in PlacesResults }
    \cup { [add_error(s, "Restaurant search failed") EXCEPT !.restaurant_candidates = << >>] }

voice_select_restaurant(s) ==
    IF s.restaurant_candidates = << >>
    THEN { add_error(s, "No restaurants found") }
    ELSE { [s EXCEPT !.selected_restaurant = max_rating(s.restaurant_candidates)] }

voice_prepare_call(s) ==
    IF s.selected_restaurant = NoRestaurant
    THEN { add_error(s, "No restaurant selected") }
    ELSE { [s EXCEPT !.call_opening_script = "llm"],
           [s EXCEPT !.call_opening_script = "template"] }

voice_make_call(s) ==
    IF s.selected_restaurant = NoRestaurant
    THEN { add_error(s, "No restaurant to call") }
    ELSE { [s EXCEPT !.twilio_call_sid = "call_sid", !.call_connected = TRUE],
           [add_error(s, "Failed to initiate call") EXCEPT !.call_connected = FALSE],
           [add_error(s, "Call failed") EXCEPT !.call_connected = FALSE] }

voice_converse(s) ==
    IF ~ s.call_connected
    THEN { add_error(s, "Call not connected") }
    ELSE { increment_turn(
             [s EXCEPT !.messages = @ + 6,
                       !.confirmation_number = "4892",
                       !.booking_confirmed = TRUE]) }

voice_confirm_booking(s) ==
    IF ~ s.booking_confirmed \/ s.selected_restaurant = NoRestaurant
    THEN { [add_error(s, "Cannot confirm incomplete booking") EXCEPT !.status = FAILED] }
    ELSE { [s EXCEPT !.status = COMPLETED] }

\* the goodbye of voice_confirm_booking is spoken on its success branch only
voice_confirm_booking_goodbye(s) ==
    IF ~ s.booking_confirmed \/ s.selected_restaurant = NoRestaurant THEN 0 ELSE 1

voice_handle_error_marks_failed(s) ==
    IF can_retry(s)
    THEN { [increment_retry(s) EXCEPT !.status = FAILED] }
    ELSE { [s EXCEPT !.status = FAILED] }

voice_handle_error(s) ==
    IF can_retry(s)
    THEN { increment_retry(s) }
    ELSE { [s EXCEPT !.status = FAILED] }

\* run_voice_integrated_booking passes ten fields to the rebuilt object
voice_reconstruct(s) ==
    [DrivingBookingState(2) EXCEPT
        !.status = s.status,
        !.party_size = s.party_size,
        !.requested_date = s.requested_date,
        !.requested_time = s.requested_time,
        !.cuisine_type = s.cuisine_type,
        !.location = s.location,
        !.selected_restaurant = s.selected_restaurant,
        !.confirmation_number = s.confirmation_number,
        !.booking_confirmed = s.booking_confirmed,
        !.twilio_call_sid = s.twilio_call_sid]

-----------------------------------------------------------------------------
(* InteractiveBookingOrchestrator *)

\* The override of confirm_booking only announces the booking and returns
\* None: as a graph node it leaves the state as it is.
interactive_confirm_booking(s) == { s }

-----------------------------------------------------------------------------
(* AdvancedInteractiveOrchestrator *)

Top3(candidates) == SubSeq(candidates, 1, IF Len(candidates) < 3 THEN Len(candidates) ELSE 3)

\* select_restaurant_with_options returns the restaurant (or None) and
\* run_advanced_interactive_booking_session stores it when it is not None
select_restaurant_with_options(s) ==
    IF s.restaurant_candidates = << >>
    THEN { s }
    ELSE { [s EXCEPT !.selected_restaurant = max_rating(Top3(s.restaurant_candidates))] }

\* the call announcement of step 7 reads selected_restaurant.name
adv_announce_call_raises(s) == s.selected_restaurant = NoRestaurant

-----------------------------------------------------------------------------
(* InteractiveVoiceOrchestrator *)

max_calendar_retries == 3
max_attempts == 3

\* what listen_and_transcribe hands back: "" for silence or a failure of
\* its own, blanks, or some words
Responses == {"", " ", "words"}

\* what the driver can answer when asked for an option: silence, blanks,
\* some words, or the number of an option
SelectionResponses == Responses \cup {"option 2", "option 4"}

\* not user_response or user_response.strip() == ""
empty_response(user_response) == user_response \in {"", " "}

\* the utterances awaited so far, counted up to MaxListens
count_listen(n) == IF n < MaxListens THEN n + 1 ELSE n

\* What extract_intent_from_response can answer: a correction per field or
\* null; on a failure of its own it answers with no field at all.
Extracted(p, c, l, d, t) ==
    [party_size |-> p, cuisine_type |-> c, location |-> l, date |-> d, time |-> t]

Extractions ==
    { Extracted(None, None, None, None, None),
      Extracted(None, None, "downtown", None, None),
      Extracted("3", None, None, "tomorrow", None),
      Extracted("4", "Thai", "downtown", "tomorrow", "20:00") }

\* truth value of an optional text or number
Truthy(v) == v # None /\ v # ""

_has_all_required_details_any(s) ==
    \/ Truthy(s.party_size)
    \/ Truthy(s.cuisine_type)
    \/ Truthy(s.location)
    \/ Truthy(s.requested_date)
    \/ Truthy(s.requested_time)

_has_all_required_details(s) ==
    /\ Truthy(s.party_size)
    /\ Truthy(s.cuisine_type)
    /\ Truthy(s.location)
    /\ Truthy(s.requested_date)
    /\ Truthy(s.requested_time)

_update_state_from_extracted_fill_missing(s, extracted) ==
    [s EXCEPT
        !.party_size     = IF Truthy(@) THEN @ ELSE extracted.party_size,
        !.cuisine_type   = IF Truthy(@) THEN @ ELSE extracted.cuisine_type,
        !.location       = IF Truthy(@) THEN @ ELSE extracted.location,
        !.requested_date = IF Truthy(@) THEN @ ELSE extracted.date,
        !.requested_time = IF Truthy(@) THEN @ ELSE extracted.time]

_update_state_from_extracted_without_location(s, extracted) ==
    [s EXCEPT
        !.party_size     = IF Truthy(extracted.party_size) THEN extracted.party_size ELSE @,
        !.cuisine_type   = IF Truthy(extracted.cuisine_type) THEN extracted.cuisine_type ELSE @,
        !.requested_date = IF Truthy(extracted.date) THEN extracted.date ELSE @,
        !.requested_time = IF Truthy(extracted.time) THEN extracted.time ELSE @]

_update_state_from_extracted(s, extracted) ==
    [s EXCEPT
        !.party_size     = IF Truthy(extracted.party_size) THEN extracted.party_size ELSE @,
        !.cuisine_type   = IF Truthy(extracted.cuisine_type) THEN extracted.cuisine_type ELSE @,
        !.location       = IF Truthy(extracted.location) THEN extracted.location ELSE @,
        !.requested_date = IF Truthy(extracted.date) THEN extracted.date ELSE @,
        !.requested_time = IF Truthy(extracted.time) THEN extracted.time ELSE @]

\* the calendar loop asks again with the requested time (and date) that
\* the extraction found; the errors recorded so far are dropped
calendar_retry_update_all_fields(s, extracted) ==
    [_update_state_from_extracted(s, extracted) EXCEPT !.errors = << >>]

calendar_retry_update(s, extracted) ==
    [s EXCEPT
        !.requested_time = IF Truthy(extracted.time) THEN extracted.time ELSE @,
        !.requested_date = IF Truthy(extracted.date) THEN extracted.date ELSE @,
        !.errors = << >>]

calendar_loop_continues_unconfirmed(l) ==
    l.calendar_attempt < l.max_calendar_retries

calendar_loop_continues_inclusive(l) ==
    l.calendar_attempt <= l.max_calendar_retries /\ ~ l.calendar_confirmed

\* the test of the calendar loop, on the local variables l
calendar_loop_continues(l) ==
    l.calendar_attempt < l.max_calendar_retries /\ ~ l.calendar_confirmed

\* The local variables of run_interactive_voice_booking, with what the
\* session has seen of its calendar: the checks made, the times the driver
\* was asked for another time, the last answer to that question and what
\* was extracted from it, and whether the calendar backend failed; for the
\* graph workflow, how often Converse and HandleError were executed and how
\* often the retry edge was taken.
Locals ==
    [calendar_attempt |-> 0, calendar_confirmed |-> FALSE, attempt |-> 0, listens |-> 0,
     max_calendar_retries |-> max_calendar_retries,
     check_calendar_stub |-> None,
     calendar_checks |-> 0,
     calendar_prompts |-> 0,
     calendar_backend_failed |-> FALSE,
     new_time_response |-> None,
     user_response |-> None,
     selected_option |-> None,
     extracted |-> Extracted(None, None, None, None, None),
     call_confirmation_asked |-> FALSE,
     user_confirm |-> << >>,
     converses |-> 0,
     handle_errors |-> 0,
     retries |-> 0]

-----------------------------------------------------------------------------
(* The graph of _build_workflow *)

static_edge(node) ==
    CASE node = "parse_intent"       -> "check_calendar"
      [] node = "check_calendar"     -> "search_restaurants"
      [] node = "search_restaurants" -> "select_restaurant"
      [] node = "select_restaurant"  -> "prepare_call"
      [] node = "prepare_call"       -> "make_call"
      [] node = "make_call"          -> "converse"
      [] node = "converse"           -> "route_conversation"
      [] node = "confirm_booking"    -> "END"
      [] node = "handle_error"       -> "route_error_recovery"

conversation_edge(label) ==
    CASE label = "booking_confirmed" -> "confirm_booking"
      [] label = "need_alternatives" -> "search_restaurants"
      [] label = "error"             -> "handle_error"
      [] label = "timeout"           -> "handle_error"

error_recovery_edge_abandon_retries(label) ==
    CASE label = "retry"    -> "make_call"
      [] label = "fallback" -> "confirm_booking"
      [] label = "abandon"  -> "make_call"

error_recovery_edge(label) ==
    CASE label = "retry"    -> "make_call"
      [] label = "fallback" -> "confirm_booking"
      [] label = "abandon"  -> "END"

\* the orchestrators that run the compiled graph, and those of them whose
\* nodes are the handlers of BookingOrchestrator
GraphOrchs == {"base", "interactive", "voice_integrated"}

BaseGraphOrchs == {"base", "interactive"}

\* a node of the graph runs its handler and follows its static edge
RunNode(node, outcomes) ==
    /\ \E s \in outcomes : state' = s
    /\ pc' = static_edge(node)
    /\ UNCHANGED <<config, shared, result, route, exc, goodbyes, loc>>

\* the same, with the execution counted
RunCountedNode(node, outcomes, counted) ==
    /\ \E s \in outcomes : state' = s
    /\ pc' = static_edge(node)
    /\ loc' = counted
    /\ UNCHANGED <<config, shared, result, route, exc, goodbyes>>

node_parse_intent ==
    /\ orch \in BaseGraphOrchs
    /\ pc = "parse_intent"
    /\ RunNode("parse_intent", parse_intent(state))

node_check_calendar ==
    /\ orch \in BaseGraphOrchs
    /\ pc = "check_calendar"
    /\ RunNode("check_calendar", check_calendar(state))

node_search_restaurants ==
    /\ orch \in BaseGraphOrchs
    /\ pc = "search_restaurants"
    /\ RunNode("search_restaurants", search_restaurants(state))

node_select_restaurant ==
    /\ orch \in BaseGraphOrchs
    /\ pc = "select_restaurant"
    /\ RunNode("select_restaurant", select_restaurant(state))

node_prepare_call ==
    /\ orch \in BaseGraphOrchs
    /\ pc = "prepare_call"
    /\ RunNode("prepare_call", prepare_call(state))

node_make_call ==
    /\ orch \in BaseGraphOrchs
    /\ pc = "make_call"
    /\ IF make_call_raises(state)
       THEN /\ exc' = "AttributeError"
            /\ pc' = "except"
            /\ UNCHANGED state
       ELSE /\ \E s \in make_call(state) : state' = s
            /\ pc' = static_edge("make_call")
            /\ UNCHANGED exc
    /\ UNCHANGED <<config, shared, result, route, goodbyes, loc>>

node_converse ==
    /\ orch \in BaseGraphOrchs
    /\ pc = "converse"
    /\ RunCountedNode("converse", converse(state), [loc EXCEPT !.converses = @ + 1])

node_confirm_booking ==
    /\ orch \in {"base"}
    /\ pc = "confirm_booking"
    /\ RunNode("confirm_booking", confirm_booking(state))

node_interactive_confirm_booking ==
    /\ orch \in {"interactive"}
    /\ pc = "confirm_booking"
    /\ RunNode("confirm_booking", interactive_confirm_booking(state))

node_handle_error ==
    /\ orch \in BaseGraphOrchs
    /\ pc = "handle_error"
    /\ RunCountedNode("handle_error", handle_error(state), [loc EXCEPT !.handle_errors = @ + 1])

edge_route_conversation ==
    /\ orch \in GraphOrchs
    /\ pc = "route_conversation"
    /\ route' = route_conversation(state)
    /\ pc' = conversation_edge(route')
    /\ UNCHANGED <<config, shared, state, result, exc, goodbyes, loc>>

edge_route_error_recovery ==
    /\ orch \in GraphOrchs
    /\ pc = "route_error_recovery"
    /\ route' = route_error_recovery(state)
    /\ pc' = error_recovery_edge(route')
    /\ loc' = [loc EXCEPT !.retries = IF route' = "retry" THEN @ + 1 ELSE @]
    /\ UNCHANGED <<config, shared, state, result, exc, goodbyes>>

node_voice_parse_intent ==
    /\ orch \in {"voice_integrated"}
    /\ pc = "parse_intent"
    /\ RunNode("parse_intent", voice_parse_intent(state))

node_voice_check_calendar ==
    /\ orch \in {"voice_integrated"}
    /\ pc = "check_calendar"
    /\ IF use_mock_calendar \/ demo_mode
       THEN /\ \E s \in voice_check_calendar(state) : state' = s
            /\ loc' = [loc EXCEPT !.calendar_checks = @ + 1]
       ELSE \E answer \in CalendarAnswers :
              /\ state' = voice_check_calendar_answer(state, answer)
              /\ loc' = [loc EXCEPT !.calendar_checks = @ + 1,
                                    !.calendar_backend_failed = (answer = "raises")]
    /\ pc' = static_edge("check_calendar")
    /\ UNCHANGED <<config, shared, result, route, exc, goodbyes>>

node_voice_search_restaurants ==
    /\ orch \in {"voice_integrated"}
    /\ pc = "search_restaurants"
    /\ RunNode("search_restaurants", voice_search_restaurants(state))

node_voice_select_restaurant ==
    /\ orch \in {"voice_integrated"}
    /\ pc = "select_restaurant"
    /\ RunNode("select_restaurant", voice_select_restaurant(state))

node_voice_prepare_call ==
    /\ orch \in {"voice_integrated"}
    /\ pc = "prepare_call"
    /\ RunNode("prepare_call", voice_prepare_call(state))

node_voice_make_call ==
    /\ orch \in {"voice_integrated"}
    /\ pc = "make_call"
    /\ RunNode("make_call", voice_make_call(state))

node_voice_converse ==
    /\ orch \in {"voice_integrated"}
    /\ pc = "converse"
    /\ RunCountedNode("converse", voice_converse(state), [loc EXCEPT !.converses = @ + 1])

node_voice_confirm_booking ==
    /\ orch = "voice_integrated"
    /\ pc = "confirm_booking"
    /\ \E s \in voice_confirm_booking(state) : state' = s
    /\ goodbyes' = goodbyes + voice_confirm_booking_goodbye(state)
    /\ pc' = static_edge("confirm_booking")
    /\ UNCHANGED <<config, shared, result, route, exc, loc>>

node_voice_handle_error ==
    /\ orch \in {"voice_integrated"}
    /\ pc = "handle_error"
    /\ RunCountedNode("handle_error", voice_handle_error(state), [loc EXCEPT !.handle_errors = @ + 1])

\* run_booking_session: the workflow ended, the result is rebuilt and returned
run_booking_session_return ==
    /\ orch \in BaseGraphOrchs
    /\ pc = "END"
    /\ result' = reconstruct(state)
    /\ pc' = IF orch = "interactive" THEN "interactive_goodbye" ELSE "returned"
    /\ UNCHANGED <<config, shared, state, route, exc, goodbyes, loc>>

\* run_booking_session: the workflow raised
run_booking_session_except ==
    /\ orch \in BaseGraphOrchs
    /\ pc = "except"
    /\ state' = [add_error(state, "Workflow error") EXCEPT !.status = FAILED]
    /\ result' = state'
    /\ pc' = IF orch = "interactive" THEN "interactive_goodbye" ELSE "returned"
    /\ UNCHANGED <<config, shared, route, exc, goodbyes, loc>>

\* run_voice_integrated_booking: the workflow ended.  No node of this
\* orchestrator raises, so its except branch is never entered.
run_voice_integrated_booking_return ==
    /\ orch = "voice_integrated"
    /\ pc = "END"
    /\ result' = voice_reconstruct(state)
    /\ pc' = "returned"
    /\ UNCHANGED <<config, shared, state, route, exc, goodbyes, loc>>

\* run_interactive_booking_session after run_booking_session: the spoken
\* recap (only for a completed session) changes nothing, then say_goodbye
run_interactive_booking_session_goodbye ==
    /\ orch = "interactive"
    /\ pc = "interactive_goodbye"
    /\ goodbyes' = goodbyes + 1
    /\ pc' = "returned"
    /\ UNCHANGED <<config, shared, state, result, route, exc, loc>>

-----------------------------------------------------------------------------
(* run_advanced_interactive_booking_session: the steps in program order,  *)
(* with no try block around them                                          *)

adv_parse_intent ==
    /\ orch = "advanced"
    /\ pc = "adv_parse_intent"
    /\ \E s \in parse_intent(state) : state' = s
    /\ pc' = "adv_search_restaurants"
    /\ UNCHANGED <<config, shared, result, route, exc, goodbyes, loc>>

adv_search_restaurants ==
    /\ orch = "advanced"
    /\ pc = "adv_search_restaurants"
    /\ \E s \in search_restaurants(state) : state' = s
    /\ pc' = "adv_select_restaurant"
    /\ UNCHANGED <<config, shared, result, route, exc, goodbyes, loc>>

adv_select_restaurant ==
    /\ orch = "advanced"
    /\ pc = "adv_select_restaurant"
    /\ \E s \in select_restaurant_with_options(state) : state' = s
    /\ pc' = "adv_prepare_call"
    /\ UNCHANGED <<config, shared, result, route, exc, goodbyes, loc>>

adv_prepare_call ==
    /\ orch = "advanced"
    /\ pc = "adv_prepare_call"
    /\ \E s \in prepare_call(state) : state' = s
    /\ pc' = "adv_make_call"
    /\ UNCHANGED <<config, shared, result, route, exc, goodbyes, loc>>

adv_make_call ==
    /\ orch = "advanced"
    /\ pc = "adv_make_call"
    /\ IF adv_announce_call_raises(state)
       THEN /\ exc' = "AttributeError"
            /\ pc' = "raised"
            /\ UNCHANGED state
       ELSE /\ \E s \in make_call(state) : state' = s
            /\ pc' = "adv_converse"
            /\ UNCHANGED exc
    /\ UNCHANGED <<config, shared, result, route, goodbyes, loc>>

adv_converse ==
    /\ orch = "advanced"
    /\ pc = "adv_converse"
    /\ \E s \in converse(state) : state' = s
    /\ pc' = "adv_goodbye"
    /\ UNCHANGED <<config, shared, result, route, exc, goodbyes, loc>>

\* step 9 announces a confirmed booking (the override of confirm_booking),
\* step 10 says goodbye, then the state is returned
adv_goodbye ==
    /\ orch = "advanced"
    /\ pc = "adv_goodbye"
    /\ goodbyes' = goodbyes + 1
    /\ result' = state
    /\ pc' = "returned"
    /\ UNCHANGED <<config, shared, state, route, exc, loc>>

-----------------------------------------------------------------------------
(* run_interactive_voice_booking *)

iv_parse_intent ==
    /\ orch = "interactive_voice"
    /\ pc = "iv_parse_intent"
    /\ \E s \in parse_intent(state) :
         IF has_errors(s)
         THEN /\ state' = [s EXCEPT !.status = FAILED]
              /\ pc' = "iv_return"
         ELSE /\ state' = s
              /\ pc' = "iv_intent_loop"
    /\ UNCHANGED <<config, shared, result, route, exc, goodbyes, loc>>

\* One iteration of the continuous listening loop.  The loop has no bound
\* of its own: the utterances awaited are counted up to MaxListens and the
\* count stays there while the loop goes on.
iv_listen_intent ==
    /\ orch = "interactive_voice"
    /\ pc = "iv_intent_loop"
    /\ ~ _has_all_required_details(state)
    /\ \E user_response \in Responses :
         IF empty_response(user_response)
         THEN /\ loc' = [loc EXCEPT !.listens = count_listen(@),
                                    !.user_response = user_response]
              /\ UNCHANGED state
         ELSE \E extracted \in Extractions :
                /\ loc' = [loc EXCEPT !.listens = count_listen(@),
                                      !.user_response = user_response,
                                      !.extracted = extracted]
                /\ state' = _update_state_from_extracted(state, extracted)
    /\ UNCHANGED <<config, shared, pc, result, route, exc, goodbyes>>

\* One iteration of the calendar loop on the answer of check_calendar: the
\* attempt is counted first; a recorded error fails the session and breaks
\* out of the loop, a free calendar confirms and the loop test is made
\* again, a busy one asks for another time.
CalendarIteration(outcomes) ==
    \E s \in outcomes :
       LET l == [loc EXCEPT !.calendar_attempt = @ + 1, !.calendar_checks = @ + 1]
       IN  IF has_errors(s)
           THEN /\ state' = [s EXCEPT !.status = FAILED]
                /\ loc' = l
                /\ pc' = "iv_search_restaurants"
           ELSE IF s.driver_calendar_free
           THEN /\ state' = s
                /\ loc' = [l EXCEPT !.calendar_confirmed = TRUE]
                /\ pc' = IF calendar_loop_continues([l EXCEPT !.calendar_confirmed = TRUE])
                         THEN "iv_calendar_loop" ELSE "iv_search_restaurants"
           ELSE /\ state' = s
                /\ loc' = [l EXCEPT !.calendar_prompts = @ + 1]
                /\ pc' = "iv_calendar_busy"

\* the listening loop is left, the details are confirmed and the calendar
\* loop runs an iteration
iv_check_calendar ==
    /\ orch = "interactive_voice"
    /\ pc = "iv_intent_loop"
    /\ _has_all_required_details(state)
    /\ calendar_loop_continues(loc)
    /\ CalendarIteration(check_calendar(state))
    /\ UNCHANGED <<config, shared, result, route, exc, goodbyes>>

\* the give-up test after the calendar loop, then step 3
iv_search_restaurants ==
    /\ orch = "interactive_voice"
    /\ pc = "iv_search_restaurants"
    /\ LET gave_up == state.status \notin {FAILED, CANCELLED} /\ ~ loc.calendar_confirmed
           s0 == IF gave_up THEN [state EXCEPT !.status = FAILED] ELSE state
       IN  IF s0.status \in {FAILED, CANCELLED}
           THEN /\ state' = s0
                /\ pc' = "iv_goodbye"
           ELSE \E s \in search_restaurants(s0) :
                  IF has_errors(s)
                  THEN /\ state' = [s EXCEPT !.status = FAILED]
                       /\ pc' = "iv_goodbye"
                  ELSE /\ state' = s
                       /\ pc' = "iv_selection_loop"
    /\ UNCHANGED <<config, shared, result, route, exc, goodbyes, loc>>

\* One iteration of the selection loop.  A response that is not empty is
\* handed to message_generator.extract_restaurant_selection, a method the
\* message generator does not have: the call raises AttributeError.
iv_listen_selection ==
    /\ orch = "interactive_voice"
    /\ pc = "iv_selection_loop"
    /\ loc.attempt < max_attempts
    /\ \E user_response \in SelectionResponses :
         /\ loc' = [loc EXCEPT !.attempt = @ + 1, !.user_response = user_response]
         /\ IF empty_response(user_response)
            THEN UNCHANGED <<pc, exc>>
            ELSE /\ exc' = "AttributeError"
                 /\ pc' = "iv_except"
    /\ UNCHANGED <<config, shared, state, result, route, goodbyes>>

\* After the loop select_restaurant is called with the keyword argument
\* user_choice, which BookingOrchestrator.select_restaurant does not take:
\* the call raises TypeError.
iv_select_restaurant ==
    /\ orch = "interactive_voice"
    /\ pc = "iv_selection_loop"
    /\ loc.attempt >= max_attempts
    /\ exc' = "TypeError"
    /\ pc' = "iv_except"
    /\ UNCHANGED <<config, shared, state, result, route, goodbyes, loc>>

\* the except branch: the error is recorded and goodbye is said
iv_except ==
    /\ orch = "interactive_voice"
    /\ pc = "iv_except"
    /\ state' = [add_error(state, "Booking error") EXCEPT !.status = FAILED]
    /\ goodbyes' = goodbyes + 1
    /\ pc' = "iv_return"
    /\ UNCHANGED <<config, shared, result, route, exc, loc>>

iv_return ==
    /\ orch = "interactive_voice"
    /\ pc = "iv_return"
    /\ result' = state
    /\ pc' = "returned"
    /\ UNCHANGED <<config, shared, state, route, exc, goodbyes, loc>>

-----------------------------------------------------------------------------

Orchestrators == GraphOrchs \cup {"advanced", "interactive_voice"}

EntryPoint(o) ==
    CASE o \in GraphOrchs        -> "parse_intent"
      [] o = "advanced"          -> "adv_parse_intent"
      [] o = "interactive_voice" -> "iv_parse_intent"

\* A setting that the chosen orchestrator never reads is left at its
\* default, and so is the utterance where only the LLM reads it.
ReadsSettings ==
    /\ orch = "voice_integrated" =>
          /\ ~ use_mock_places
          /\ ~ use_mock_twilio
          /\ last_utterance = DefaultUtterance
    /\ orch # "voice_integrated" => ~ use_mock_calendar
    /\ orch \in {"advanced", "interactive_voice"} => max_conversation_turns = 0
    /\ ~ demo_mode => last_utterance = DefaultUtterance

Init ==
    /\ orch \in Orchestrators
    /\ demo_mode \in BOOLEAN
    /\ use_mock_places \in BOOLEAN
    /\ use_mock_twilio \in BOOLEAN
    /\ use_mock_calendar \in BOOLEAN
    /\ max_conversation_turns \in 0..MaxTurnsBound
    /\ last_utterance \in Utterances
    /\ ReadsSettings
    /\ pc = EntryPoint(orch)
    /\ loc = Locals
    /\ \E mr \in 0..MaxRetriesBound : state = DrivingBookingState(mr)
    /\ result = NoResult
    /\ route = None
    /\ exc = None
    /\ goodbyes = 0
    /\ voice_processor = VoiceProcessor
    /\ sessions = << >>

Next ==
    \/ node_parse_intent
    \/ node_check_calendar
    \/ node_search_restaurants
    \/ node_select_restaurant
    \/ node_prepare_call
    \/ node_make_call
    \/ node_converse
    \/ node_confirm_booking
    \/ node_handle_error
    \/ edge_route_conversation
    \/ edge_route_error_recovery
    \/ node_interactive_confirm_booking
    \/ node_voice_parse_intent
    \/ node_voice_check_calendar
    \/ node_voice_search_restaurants
    \/ node_voice_select_restaurant
    \/ node_voice_prepare_call
    \/ node_voice_make_call
    \/ node_voice_converse
    \/ node_voice_confirm_booking
    \/ node_voice_handle_error
    \/ run_booking_session_return
    \/ run_booking_session_except
    \/ run_voice_integrated_booking_return
    \/ run_interactive_booking_session_goodbye
    \/ adv_parse_intent
    \/ adv_search_restaurants
    \/ adv_select_restaurant
    \/ adv_prepare_call
    \/ adv_make_call
    \/ adv_converse
    \/ adv_goodbye
    \/ iv_parse_intent
    \/ iv_listen_intent
    \/ iv_check_calendar
    \/ iv_search_restaurants
    \/ iv_listen_selection
    \/ iv_select_restaurant
    \/ iv_except
    \/ iv_return

Spec == Init /\ [][Next]_vars

\* Every await of a session returns (the collaborators answer, a listen
\* ends after its duration): a session that can take a step takes one.
SpecFair == Init /\ [][Next]_vars /\ WF_vars(Next)

-----------------------------------------------------------------------------
(* The routers on their own: each is applied once to a state whose fields *)
(* are drawn freely, the way the unit tests call them.                    *)

UnitStates ==
    { [DrivingBookingState(mr) EXCEPT
          !.booking_confirmed = bc,
          !.errors = errs,
          !.last_error = IF errs = << >> THEN None ELSE errs[Len(errs)],
          !.turn_count = tc,
          !.retry_count = rc] :
        mr \in 0..MaxRetriesBound, bc \in BOOLEAN,
        errs \in { << >>, << "Test error" >> },
        tc \in 0..(MaxTurnsBound + 1), rc \in 0..(MaxRetriesBound + 1) }

unit_route_conversation ==
    /\ orch = "unit"
    /\ pc = "unit"
    /\ route' = route_conversation(state)
    /\ pc' = "unit_route_conversation"
    /\ UNCHANGED <<config, shared, state, result, exc, goodbyes, loc>>

unit_route_error_recovery ==
    /\ orch = "unit"
    /\ pc = "unit"
    /\ route' = route_error_recovery(state)
    /\ pc' = "unit_route_error_recovery"
    /\ UNCHANGED <<config, shared, state, result, exc, goodbyes, loc>>

InitUnit ==
    /\ orch = "unit"
    /\ demo_mode = TRUE
    /\ use_mock_places = FALSE
    /\ use_mock_twilio = FALSE
    /\ use_mock_calendar = FALSE
    /\ max_conversation_turns \in 0..MaxTurnsBound
    /\ last_utterance = DefaultUtterance
    /\ pc = "unit"
    /\ loc = Locals
    /\ state \in UnitStates
    /\ result = NoResult
    /\ route = None
    /\ exc = None
    /\ goodbyes = 0
    /\ voice_processor = VoiceProcessor
    /\ sessions = << >>

NextUnit ==
    \/ unit_route_conversation
    \/ unit_route_error_recovery

SpecUnit == InitUnit /\ [][NextUnit]_vars

-----------------------------------------------------------------------------
(* The calendar loop of run_interactive_voice_booking on its own: the     *)
(* session is run with check_calendar answering as a calendar can (free,  *)
(* busy, a recorded error, an exception) and with a loop bound drawn from *)
(* 1..MaxAttemptsBound.                                                   *)

StubKinds == {"always_free", "always_busy", "any"}

\* what the check_calendar called at the head of the loop leaves behind
check_calendar_stub(s, kind) ==
    CASE kind = "always_free" -> { [s EXCEPT !.driver_calendar_free = TRUE] }
      [] kind = "always_busy" -> { [s EXCEPT !.driver_calendar_free = FALSE] }
      [] kind = "any"         -> { [s EXCEPT !.driver_calendar_free = TRUE],
                                   [s EXCEPT !.driver_calendar_free = FALSE],
                                   add_error(s, "Calendar check failed") }

\* an exception of check_calendar leaves the loop for the except branch
stub_check_calendar ==
    /\ orch = "interactive_voice"
    /\ pc \in {"iv_intent_loop", "iv_calendar_loop"}
    /\ _has_all_required_details(state)
    /\ calendar_loop_continues(loc)
    /\ \/ /\ CalendarIteration(check_calendar_stub(state, loc.check_calendar_stub))
          /\ UNCHANGED exc
       \/ /\ loc.check_calendar_stub = "any"
          /\ loc' = [loc EXCEPT !.calendar_attempt = @ + 1,
                                !.calendar_checks = @ + 1,
                                !.calendar_backend_failed = TRUE]
          /\ exc' = "Exception"
          /\ pc' = "iv_except"
          /\ UNCHANGED state
    /\ UNCHANGED <<config, shared, result, route, goodbyes>>

\* the busy branch: the driver is asked for another time; an empty answer
\* goes on to the next iteration, any other answer is handed to the
\* extraction and the requested time and date are updated from it
iv_new_time ==
    /\ orch = "interactive_voice"
    /\ pc = "iv_calendar_busy"
    /\ \E new_time_response \in Responses :
         IF empty_response(new_time_response)
         THEN /\ loc' = [loc EXCEPT !.new_time_response = new_time_response]
              /\ UNCHANGED state
         ELSE \E extracted \in Extractions :
                /\ loc' = [loc EXCEPT !.new_time_response = new_time_response,
                                      !.extracted = extracted]
                /\ state' = calendar_retry_update(state, extracted)
    /\ pc' = IF calendar_loop_continues(loc) THEN "iv_calendar_loop" ELSE "iv_search_restaurants"
    /\ UNCHANGED <<config, shared, result, route, exc, goodbyes>>

\* the single goodbye at the end of the else branch
iv_goodbye ==
    /\ orch = "interactive_voice"
    /\ pc = "iv_goodbye"
    /\ goodbyes' = goodbyes + 1
    /\ pc' = "iv_return"
    /\ UNCHANGED <<config, shared, state, result, route, exc, loc>>

InitCalendarLoop ==
    /\ orch = "interactive_voice"
    /\ demo_mode \in BOOLEAN
    /\ use_mock_places \in BOOLEAN
    /\ use_mock_twilio \in BOOLEAN
    /\ use_mock_calendar \in BOOLEAN
    /\ max_conversation_turns \in 0..MaxTurnsBound
    /\ last_utterance \in Utterances
    /\ ReadsSettings
    /\ pc = EntryPoint(orch)
    /\ \E kind \in StubKinds, n \in 1..MaxAttemptsBound :
         loc = [Locals EXCEPT !.check_calendar_stub = kind, !.max_calendar_retries = n]
    /\ state = DrivingBookingState(2)
    /\ result = NoResult
    /\ route = None
    /\ exc = None
    /\ goodbyes = 0
    /\ voice_processor = VoiceProcessor
    /\ sessions = << >>

NextCalendarLoop ==
    \/ iv_parse_intent
    \/ iv_listen_intent
    \/ stub_check_calendar
    \/ iv_new_time
    \/ iv_search_restaurants
    \/ iv_listen_selection
    \/ iv_select_restaurant
    \/ iv_except
    \/ iv_goodbye
    \/ iv_return

SpecCalendarLoop == InitCalendarLoop /\ [][NextCalendarLoop]_vars

-----------------------------------------------------------------------------
(* The selection handlers on their own: each is applied once to a state   *)
(* whose candidate list is drawn freely (up to MaxCandidates restaurants, *)
(* every assignment of ratings), the way the unit tests call them.        *)

\* ratings, in tenths of a star
Ratings == {41, 45, 47}

\* the restaurant at position i of a list is named after its position
CandidateLists ==
    { [i \in 1..n |-> Restaurant(ToString(i), ratings[i])] :
        n \in 1..MaxCandidates, ratings \in [1..MaxCandidates -> Ratings] }

SelectStates ==
    { [DrivingBookingState(2) EXCEPT !.restaurant_candidates = c] :
        c \in CandidateLists \cup { << >> } }

unit_select_restaurant ==
    /\ orch = "unit_select"
    /\ pc = "unit"
    /\ \E s \in select_restaurant(state) : state' = s
    /\ pc' = "unit_select_restaurant"
    /\ UNCHANGED <<config, shared, result, route, exc, goodbyes, loc>>

unit_voice_select_restaurant ==
    /\ orch = "unit_select"
    /\ pc = "unit"
    /\ \E s \in voice_select_restaurant(state) : state' = s
    /\ pc' = "unit_voice_select_restaurant"
    /\ UNCHANGED <<config, shared, result, route, exc, goodbyes, loc>>

unit_select_restaurant_with_options ==
    /\ orch = "unit_select"
    /\ pc = "unit"
    /\ \E s \in select_restaurant_with_options(state) : state' = s
    /\ pc' = "unit_select_restaurant_with_options"
    /\ UNCHANGED <<config, shared, result, route, exc, goodbyes, loc>>

InitSelect ==
    /\ orch = "unit_select"
    /\ demo_mode = TRUE
    /\ use_mock_places = FALSE
    /\ use_mock_twilio = FALSE
    /\ use_mock_calendar = FALSE
    /\ max_conversation_turns = 0
    /\ last_utterance = DefaultUtterance
    /\ pc = "unit"
    /\ loc = Locals
    /\ state \in SelectStates
    /\ result = NoResult
    /\ route = None
    /\ exc = None
    /\ goodbyes = 0
    /\ voice_processor = VoiceProcessor
    /\ sessions = << >>

NextSelect ==
    \/ unit_select_restaurant
    \/ unit_voice_select_restaurant
    \/ unit_select_restaurant_with_options

SpecSelect == InitSelect /\ [][NextSelect]_vars

-----------------------------------------------------------------------------
(* Sessions run side by side in one process, in demo mode: each listens   *)
(* for its request on the module-level voice processor and runs the graph *)
(* of BookingOrchestrator on what it heard.  A step of one session is one *)
(* stretch between two awaits; the sessions interleave at these points.   *)

\* a session before its first step
Session ==
    [pc |-> "listen", utterance |-> DefaultUtterance, heard |-> FALSE,
     state |-> DrivingBookingState(2), result |-> NoResult]

\* the handler of a node of the graph, on the state s of a session that
\* heard the utterance u
session_node(node, s, u) ==
    CASE node = "parse_intent"       -> { parse_intent_demo(s, u) }
      [] node = "check_calendar"     -> check_calendar(s)
      [] node = "search_restaurants" -> search_restaurants(s)
      [] node = "select_restaurant"  -> select_restaurant(s)
      [] node = "prepare_call"       -> prepare_call(s)
      [] node = "make_call"          -> make_call(s)
      [] node = "converse"           -> converse(s)
      [] node = "confirm_booking"    -> confirm_booking(s)
      [] node = "handle_error"       -> handle_error(s)

\* the request of the session is listened for and transcribed
session_listen ==
    /\ orch = "sessions"
    /\ \E i \in DOMAIN sessions :
         /\ sessions[i].pc = "listen"
         /\ sessions' = [sessions EXCEPT ![i].utterance = transcribe(voice_processor),
                                         ![i].heard = TRUE,
                                         ![i].pc = "parse_intent"]
         /\ voice_processor' = transcribed(voice_processor)
    /\ UNCHANGED <<config, pc, state, result, route, exc, goodbyes, loc>>

\* a node of the graph of one session
session_run_node ==
    /\ orch = "sessions"
    /\ \E i \in DOMAIN sessions :
         /\ sessions[i].pc \in {"parse_intent", "check_calendar", "search_restaurants",
                                "select_restaurant", "prepare_call", "make_call",
                                "converse", "confirm_booking", "handle_error"}
         /\ \E s \in session_node(sessions[i].pc, sessions[i].state, sessions[i].utterance) :
              sessions' = [sessions EXCEPT ![i].state = s,
                                           ![i].pc = static_edge(sessions[i].pc)]
    /\ UNCHANGED <<config, pc, state, result, route, exc, goodbyes, loc, voice_processor>>

\* a router of the graph of one session
session_route ==
    /\ orch = "sessions"
    /\ \E i \in DOMAIN sessions :
         /\ sessions[i].pc \in {"route_conversation", "route_error_recovery"}
         /\ sessions' =
              [sessions EXCEPT ![i].pc =
                  IF sessions[i].pc = "route_conversation"
                  THEN conversation_edge(route_conversation(sessions[i].state))
                  ELSE error_recovery_edge(route_error_recovery(sessions[i].state))]
    /\ UNCHANGED <<config, pc, state, result, route, exc, goodbyes, loc, voice_processor>>

\* run_booking_session of one session returns the rebuilt state
session_return ==
    /\ orch = "sessions"
    /\ \E i \in DOMAIN sessions :
         /\ sessions[i].pc = "END"
         /\ sessions' = [sessions EXCEPT ![i].result = reconstruct(sessions[i].state),
                                         ![i].pc = "returned"]
    /\ UNCHANGED <<config, pc, state, result, route, exc, goodbyes, loc, voice_processor>>

InitSessions ==
    /\ orch = "sessions"
    /\ demo_mode = TRUE
    /\ use_mock_places \in BOOLEAN
    /\ use_mock_twilio \in BOOLEAN
    /\ use_mock_calendar = FALSE
    /\ max_conversation_turns \in 0..MaxTurnsBound
    /\ last_utterance = DefaultUtterance
    /\ pc = "sessions"
    /\ loc = Locals
    /\ state = DrivingBookingState(2)
    /\ result = NoResult
    /\ route = None
    /\ exc = None
    /\ goodbyes = 0
    /\ voice_processor = VoiceProcessor
    /\ \E n \in 1..MaxSessions : sessions = [i \in 1..n |-> Session]

NextSessions ==
    \/ session_listen
    \/ session_run_node
    \/ session_route
    \/ session_return

SpecSessions == InitSessions /\ [][NextSessions]_vars

-----------------------------------------------------------------------------
(* run_booking_session of BookingOrchestrator as a function: the results  *)
(* the compiled graph can hand back from a given state under the settings *)
(* in force.                                                              *)

MaxGraphSteps == 60

node_handler(node, s) ==
    CASE node = "parse_intent"       -> parse_intent(s)
      [] node = "check_calendar"     -> check_calendar(s)
      [] node = "search_restaurants" -> search_restaurants(s)
      [] node = "select_restaurant"  -> select_restaurant(s)
      [] node = "prepare_call"       -> prepare_call(s)
      [] node = "make_call"          -> make_call(s)
      [] node = "converse"           -> converse(s)
      [] node = "confirm_booking"    -> confirm_booking(s)
      [] node = "handle_error"       -> handle_error(s)

RECURSIVE ainvoke(_, _, _)
ainvoke(node, s, steps) ==
    IF node = "END" THEN { reconstruct(s) }
    ELSE IF steps = 0 THEN {}
    ELSE IF node = "route_conversation"
    THEN ainvoke(conversation_edge(route_conversation(s)), s, steps - 1)
    ELSE IF node = "route_error_recovery"
    THEN ainvoke(error_recovery_edge(route_error_recovery(s)), s, steps - 1)
    ELSE IF node = "make_call" /\ make_call_raises(s)
    THEN { [add_error(s, "Workflow error") EXCEPT !.status = FAILED] }
    ELSE UNION { ainvoke(static_edge(node), s2, steps - 1) : s2 \in node_handler(node, s) }

run_booking_session(s) == ainvoke("parse_intent", s, MaxGraphSteps)

-----------------------------------------------------------------------------
(* Steps 5 to 8 of run_interactive_voice_booking on their own: the        *)
(* session is taken up after step 3 with a selection step that returns,   *)
(* and the driver's answer to "Should I call them now?" is a text, letter *)
(* by letter.                                                             *)

Text(word) ==
    CASE word = ""        -> << >>
      [] word = " "       -> << " " >>
      [] word = "yes"     -> << "y", "e", "s" >>
      [] word = "Yes now" -> << "Y", "e", "s", " ", "n", "o", "w" >>
      [] word = "ok"      -> << "o", "k" >>
      [] word = "no"      -> << "n", "o" >>
      [] word = "No"      -> << "N", "o" >>
      [] word = "NO"      -> << "N", "O" >>

\* what listen_and_transcribe can hand back at the confirmation question
ConfirmResponses == { Text(w) : w \in {"", " ", "yes", "Yes now", "ok", "no", "No", "NO"} }

\* str.lower on the letters that occur in the answers
lower(text) ==
    [i \in 1..Len(text) |->
        CASE text[i] = "N" -> "n"
          [] text[i] = "O" -> "o"
          [] text[i] = "Y" -> "y"
          [] OTHER         -> text[i]]

\* sub in text
contains(sub, text) ==
    \E i \in 0..(Len(text) - Len(sub)) :
       \A j \in 1..Len(sub) : text[i + j] = sub[j]

\* user_confirm and "no" in user_confirm.lower()
user_declines(user_confirm) ==
    user_confirm # << >> /\ contains(<< "n", "o" >>, lower(user_confirm))

\* The selection step as lines 357-365 use it: a call that returns the
\* state with a candidate selected or an error recorded.
stub_select_restaurant ==
    /\ orch = "interactive_voice"
    /\ pc = "iv_selection_loop"
    /\ \E s \in select_restaurant(state) :
         state' = IF has_errors(s) \/ s.selected_restaurant = NoRestaurant
                  THEN [s EXCEPT !.status = FAILED]
                  ELSE s
    /\ pc' = "iv_prepare_call"
    /\ UNCHANGED <<config, shared, result, route, exc, goodbyes, loc>>

\* step 5: the script is prepared, then the announcement reads
\* selected_restaurant.name
iv_prepare_call ==
    /\ orch = "interactive_voice"
    /\ pc = "iv_prepare_call"
    /\ \E s \in prepare_call(state) :
         /\ state' = s
         /\ IF s.selected_restaurant = NoRestaurant
            THEN /\ exc' = "AttributeError"
                 /\ pc' = "iv_except"
            ELSE /\ pc' = "iv_confirm_call"
                 /\ UNCHANGED exc
    /\ UNCHANGED <<config, shared, result, route, goodbyes, loc>>

\* "Should I call them now?": the answer is listened for and a declining
\* one cancels the session
iv_confirm_call ==
    /\ orch = "interactive_voice"
    /\ pc = "iv_confirm_call"
    /\ \E user_confirm \in ConfirmResponses :
         /\ loc' = [loc EXCEPT !.call_confirmation_asked = TRUE,
                               !.user_confirm = user_confirm]
         /\ state' = IF user_declines(user_confirm)
                     THEN [state EXCEPT !.status = CANCELLED]
                     ELSE state
    /\ pc' = "iv_make_call"
    /\ UNCHANGED <<config, shared, result, route, exc, goodbyes>>

\* the gate of line 405 and step 6
iv_make_call ==
    /\ orch = "interactive_voice"
    /\ pc = "iv_make_call"
    /\ IF state.status \in {FAILED, CANCELLED}
       THEN /\ pc' = "iv_confirm_booking"
            /\ UNCHANGED state
       ELSE \E s \in make_call(state) :
              IF has_errors(s)
              THEN /\ state' = [s EXCEPT !.status = FAILED]
                   /\ pc' = "iv_confirm_booking"
              ELSE /\ state' = s
                   /\ pc' = "iv_converse"
    /\ UNCHANGED <<config, shared, result, route, exc, goodbyes, loc>>

\* step 7
iv_converse ==
    /\ orch = "interactive_voice"
    /\ pc = "iv_converse"
    /\ \E s \in converse(state) : state' = s
    /\ pc' = "iv_confirm_booking"
    /\ UNCHANGED <<config, shared, result, route, exc, goodbyes, loc>>

\* the gate of line 439 and step 8; saving the reservation to the calendar
\* changes nothing of the session
iv_confirm_booking ==
    /\ orch = "interactive_voice"
    /\ pc = "iv_confirm_booking"
    /\ state' = IF state.status \in {FAILED, CANCELLED}
                THEN state
                ELSE IF ~ state.booking_confirmed
                THEN [state EXCEPT !.status = FAILED]
                ELSE [state EXCEPT !.status = COMPLETED]
    /\ pc' = "iv_goodbye"
    /\ UNCHANGED <<config, shared, result, route, exc, goodbyes, loc>>

\* the sessions as step 3 leaves them for the selection step
InitCallConfirmation ==
    /\ orch = "interactive_voice"
    /\ demo_mode \in BOOLEAN
    /\ use_mock_places \in BOOLEAN
    /\ use_mock_twilio \in BOOLEAN
    /\ use_mock_calendar \in BOOLEAN
    /\ max_conversation_turns \in 0..MaxTurnsBound
    /\ last_utterance \in Utterances
    /\ ReadsSettings
    /\ pc = "iv_selection_loop"
    /\ loc = [Locals EXCEPT !.calendar_attempt = 1, !.calendar_confirmed = TRUE,
                            !.calendar_checks = 1, !.attempt = max_attempts]
    /\ \E s1 \in parse_intent(DrivingBookingState(2)) :
         /\ ~ has_errors(s1)
         /\ _has_all_required_details(s1)
         /\ \E s2 \in check_calendar(s1) : state \in search_restaurants(s2)
    /\ result = NoResult
    /\ route = None
    /\ exc = None
    /\ goodbyes = 0
    /\ voice_processor = VoiceProcessor
    /\ sessions = << >>

NextCallConfirmation ==
    \/ stub_select_restaurant
    \/ iv_prepare_call
    \/ iv_confirm_call
    \/ iv_make_call
    \/ iv_converse
    \/ iv_confirm_booking
    \/ iv_except
    \/ iv_goodbye
    \/ iv_return

SpecCallConfirmation == InitCallConfirmation /\ [][NextCallConfirmation]_vars

-----------------------------------------------------------------------------
(* Properties *)

Terminal(st) == st # ACTIVE

Returned == pc = "returned"

\* C1: in the graph workflow, started with retry_count = 0 and any
\* max_retries >= 0, retry_count never exceeds max_retries, in the session
\* state and in the state handed back to the caller.
C1_RetryWithinBudget ==
    orch \in GraphOrchs =>
        /\ state.retry_count <= state.max_retries
        /\ Returned => result.retry_count <= result.max_retries

\* HandleError has used the whole (non-empty) budget
C1_Witness ==
    /\ orch \in GraphOrchs
    /\ pc = "route_error_recovery"
    /\ state.max_retries > 0
    /\ state.retry_count = state.max_retries

\* C2: route_conversation returns booking_confirmed when the booking is
\* confirmed; otherwise error when errors is not empty; otherwise timeout
\* when turn_count >= max_turns; otherwise need_alternatives.
C2_RouteConversationPrecedence ==
    pc = "unit_route_conversation" =>
        /\ state.booking_confirmed => route = "booking_confirmed"
        /\ (~ state.booking_confirmed /\ state.errors # << >>) => route = "error"
        /\ (~ state.booking_confirmed /\ state.errors = << >>
              /\ state.turn_count >= max_conversation_turns) => route = "timeout"
        /\ (~ state.booking_confirmed /\ state.errors = << >>
              /\ state.turn_count < max_conversation_turns) => route = "need_alternatives"

\* a confirmed booking with recorded errors and an exhausted turn count
C2_Witness ==
    /\ pc = "unit_route_conversation"
    /\ state.booking_confirmed
    /\ state.errors # << >>
    /\ state.turn_count >= max_conversation_turns
    /\ route = "booking_confirmed"

\* C3: route_error_recovery returns retry exactly when retry_count <
\* max_retries, otherwise fallback exactly when booking_confirmed holds,
\* otherwise abandon.
C3_RouteErrorRecovery ==
    pc = "unit_route_error_recovery" =>
        /\ route = "retry" <=> state.retry_count < state.max_retries
        /\ route = "fallback" <=>
             (state.retry_count >= state.max_retries /\ state.booking_confirmed)
        /\ route = "abandon" <=>
             (state.retry_count >= state.max_retries /\ ~ state.booking_confirmed)

\* the budget is exactly used up and the booking is confirmed
C3_Witness ==
    /\ pc = "unit_route_error_recovery"
    /\ state.retry_count = state.max_retries
    /\ state.booking_confirmed
    /\ route = "fallback"

\* C4: when the router after HandleError returns abandon and the workflow
\* has ended, the status of the session is Failed.
C4_AbandonEndsFailed ==
    (orch \in GraphOrchs /\ route = "abandon" /\ pc \in {"END", "returned"}) =>
        state.status = FAILED

\* C5: run_booking_session returns a state whose status is Completed or
\* Failed, never one that is still Active.
C5_ReturnsCompletedOrFailed ==
    (orch \in BaseGraphOrchs /\ result # NoResult) =>
        result.status \in {COMPLETED, FAILED}

\* C6: in every state of every orchestrator, status Failed or Timeout comes
\* with at least one entry in errors.
C6_FailedHasError ==
    state.status \in {FAILED, TIMEOUT} => Len(state.errors) > 0

\* C7: no step handler raises: a failure inside a step becomes an entry of
\* errors and the step returns the state.
C7_NoStepRaises == exc = None

\* C8: when control is back with the caller, the end-of-session goodbye has
\* been spoken exactly once (orchestrators that speak at all).
C8_GoodbyeExactlyOnce ==
    (orch # "base" /\ pc \in {"returned", "raised"}) => goodbyes = 1

\* C9: status only moves forward: once it is not Active it never changes
\* again, so it changes at most once in a session.
C9_StatusForwardOnly ==
    [][Terminal(state.status) => state'.status = state.status]_vars

\* a session that failed in HandleError, was routed to the end and returned
C9_Witness ==
    /\ state.status = FAILED
    /\ route = "abandon"
    /\ Returned

BookingFields(s) ==
    << s.party_size, s.cuisine_type, s.location, s.requested_date,
       s.requested_time, s.restaurant_candidates, s.selected_restaurant,
       s.call_opening_script, s.twilio_call_sid, s.call_connected,
       s.booking_confirmed, s.confirmation_number >>

\* C10: once status is terminal, no later step changes a booking field of
\* the session.
C10_TerminalFreezesBooking ==
    [][Terminal(state.status) => BookingFields(state') = BookingFields(state)]_vars

\* a completed booking whose workflow went on to its end and returned
C10_Witness ==
    /\ state.status = COMPLETED
    /\ state.call_opening_script # None
    /\ state.selected_restaurant # NoRestaurant
    /\ Returned

Confirmed(s) ==
    /\ s.booking_confirmed
    /\ s.selected_restaurant # NoRestaurant
    /\ s.confirmation_number # None

\* C11: status Completed implies that booking_confirmed is true, a
\* restaurant is selected and a confirmation number is present, in the
\* session state and in the state returned to the caller.
C11_CompletedIsConfirmed ==
    /\ state.status = COMPLETED => Confirmed(state)
    /\ result.status = COMPLETED => Confirmed(result)

\* a completed session has been handed back to its caller
C11_Witness ==
    /\ Returned
    /\ result.status = COMPLETED
    /\ result.confirmation_number = "4892"

\* C12: when Converse confirms the booking with turn_count < max_turns,
\* the router returns booking_confirmed, ConfirmBooking runs next and the
\* workflow ends with status Completed.
C12_ConfirmedEndsCompleted ==
    (/\ orch \in GraphOrchs
     /\ state.booking_confirmed
     /\ state.turn_count < max_conversation_turns
     /\ pc \in {"confirm_booking", "END", "returned", "interactive_goodbye"}) =>
        /\ route = "booking_confirmed"
        /\ pc # "confirm_booking" => state.status = COMPLETED

\* the steps of a session from the timeout decision to its return
TimeoutAbandonStep ==
    orch \in GraphOrchs =>
        /\ (/\ pc = "route_conversation"
            /\ ~ state.booking_confirmed
            /\ state.errors = << >>
            /\ state.turn_count >= max_conversation_turns) =>
               (route' = "timeout" /\ pc' = "handle_error")
        /\ (/\ pc = "handle_error"
            /\ route = "timeout"
            /\ state.retry_count = state.max_retries) =>
               (state'.status = FAILED /\ pc' = "route_error_recovery")
        /\ (/\ pc = "route_error_recovery"
            /\ state.status = FAILED) =>
               (route' = "abandon" /\ pc' = "END" /\ state'.status = FAILED)
        /\ (/\ pc = "END"
            /\ route = "abandon"
            /\ state.status = FAILED) =>
               (state'.status = FAILED /\ result'.status = FAILED)

\* C13: with no confirmation, no error and turn_count at max_turns the
\* Converse router returns timeout and HandleError runs; entered with
\* retry_count = max_retries, HandleError is followed by abandon and the
\* workflow ends with status Failed.
C13_TimeoutAbandonFailed == [][TimeoutAbandonStep]_vars

\* a session without retry budget timed out, was abandoned and returned Failed
C13_Witness ==
    /\ orch \in GraphOrchs
    /\ Returned
    /\ route = "abandon"
    /\ state.max_retries = 0
    /\ state.errors = << >>
    /\ state.turn_count >= max_conversation_turns
    /\ result.status = FAILED

\* C14 as claimed: after the timeout branch, HandleError with the retry
\* budget exhausted leaves the session with status Timeout.
C14_TimeoutEndsTimeout ==
    [][(orch \in GraphOrchs /\ pc = "handle_error" /\ route = "timeout" /\ ~ can_retry(state))
           => state'.status = TIMEOUT]_vars

\* C14 amended: after the timeout branch, HandleError with the retry budget
\* exhausted leaves the session with status Failed, and Timeout is never
\* the status of a session.
C14_TimeoutEndsFailed ==
    [][((orch \in GraphOrchs /\ pc = "handle_error" /\ route = "timeout" /\ ~ can_retry(state))
           => state'.status = FAILED)
       /\ state'.status # TIMEOUT]_vars

\* HandleError has just failed a session that came in by the timeout branch
C14_Witness ==
    /\ orch \in GraphOrchs
    /\ pc = "route_error_recovery"
    /\ route = "timeout"
    /\ state.status = FAILED
    /\ state.retry_count = state.max_retries

\* the calendar loop of a session whose details were complete is over
CalendarLoopExited ==
    /\ orch = "interactive_voice"
    /\ _has_all_required_details(state)
    /\ pc \in {"iv_search_restaurants", "iv_selection_loop", "iv_goodbye",
               "iv_except", "iv_return", "returned"}

\* C15: with a check that always answers free the calendar loop succeeds
\* on attempt 1 for every loop bound: one check is made, the driver is
\* never asked for another time, the loop exits confirmed.
C15_AlwaysFreeFirstAttempt ==
    (CalendarLoopExited /\ loc.check_calendar_stub = "always_free") =>
        /\ loc.calendar_attempt = 1
        /\ loc.calendar_checks = 1
        /\ loc.calendar_prompts = 0
        /\ loc.calendar_confirmed
        /\ state.driver_calendar_free

\* the loop has been left with success under the largest bound
C15_Witness ==
    /\ CalendarLoopExited
    /\ loc.check_calendar_stub = "always_free"
    /\ loc.max_calendar_retries = MaxAttemptsBound
    /\ loc.calendar_confirmed
    /\ pc = "iv_selection_loop"

C17_BackendFailureIsFatal ==
    (loc.calendar_backend_failed /\ pc # "iv_except") =>
        /\ Len(state.errors) > 0
        /\ ~ state.driver_calendar_free
        /\ ~ loc.calendar_confirmed

CalendarLoopFrame ==
    /\ pc = "iv_calendar_busy" =>
          /\ state'.party_size = state.party_size
          /\ state'.cuisine_type = state.cuisine_type
          /\ state'.location = state.location
          /\ IF empty_response(loc'.new_time_response)
             THEN /\ state'.requested_time = state.requested_time
                  /\ state'.requested_date = state.requested_date
             ELSE /\ state'.requested_time =
                        IF Truthy(loc'.extracted.time)
                        THEN loc'.extracted.time ELSE state.requested_time
                  /\ state'.requested_date =
                        IF Truthy(loc'.extracted.date)
                        THEN loc'.extracted.date ELSE state.requested_date
    /\ (pc = "iv_calendar_loop" /\ pc' # "iv_except") =>
          /\ state'.party_size = state.party_size
          /\ state'.cuisine_type = state.cuisine_type
          /\ state'.location = state.location
          /\ state'.requested_time = state.requested_time
          /\ state'.requested_date = state.requested_date

SearchExecuted ==
    pc \in {"select_restaurant", "adv_select_restaurant", "iv_selection_loop"}

\* C20: the restaurant search is executed only after the availability
\* check has succeeded; a session whose availability check did not
\* succeed ends Failed without search, selection, call or conversation.
C20_SearchOnlyAfterAvailability ==
    /\ SearchExecuted => state.driver_calendar_free
    /\ (Returned /\ ~ state.driver_calendar_free /\ state.party_size # None) =>
          /\ state.status = FAILED
          /\ state.restaurant_candidates = << >>
          /\ state.selected_restaurant = NoRestaurant
          /\ ~ state.call_connected
          /\ state.turn_count = 0

\* the five required fields of a booking request are present
RequiredFieldsPresent(s) ==
    \A v \in {s.party_size, s.cuisine_type, s.location,
              s.requested_date, s.requested_time} : v \notin {None, ""}

\* every required field but the location is present
LacksOnlyLocation(s) ==
    /\ s.location = None
    /\ \A v \in {s.party_size, s.cuisine_type,
                 s.requested_date, s.requested_time} : v \notin {None, ""}

\* a step taken at the head of the listening loop
IntentLoopStep ==
    (orch = "interactive_voice" /\ pc = "iv_intent_loop") =>
       /\ RequiredFieldsPresent(state) =>
             /\ loc'.listens = loc.listens
             /\ loc'.calendar_checks = loc.calendar_checks + 1
       /\ (/\ loc.listens = 0
           /\ LacksOnlyLocation(state)
           /\ loc'.listens = 1
           /\ ~ empty_response(loc'.user_response)
           /\ Truthy(loc'.extracted.location)) =>
             /\ RequiredFieldsPresent(state')
             /\ state'.location = loc'.extracted.location
             /\ pc' = "iv_intent_loop"

\* C21: when the initial parse supplies the five required fields the
\* listening loop awaits no utterance and the next step is the first
\* calendar check; when the parse lacks only the location and the first
\* utterance is not empty and supplies it, that one iteration completes the
\* fields, after which no utterance is awaited and the calendar check
\* follows.
C21_IntentLoopIterations == [][IntentLoopStep]_vars

\* one utterance supplied the missing location and the calendar was checked
C21_Witness ==
    /\ orch = "interactive_voice"
    /\ loc.listens = 1
    /\ ~ empty_response(loc.user_response)
    /\ loc.extracted = Extracted(None, None, "downtown", None, None)
    /\ state.location = "downtown"
    /\ state.party_size = "2"
    /\ loc.calendar_checks = 1
    /\ loc.calendar_confirmed

\* the value of a field after an update: the update's value when the update
\* holds one, the previous value otherwise
MergeField(previous, update) == IF update # None THEN update ELSE previous

\* the update of an iteration: what was extracted from the utterance, and
\* nothing when the utterance was empty
IterationUpdate(l) ==
    IF empty_response(l.user_response)
    THEN Extracted(None, None, None, None, None)
    ELSE l.extracted

\* an iteration of the listening loop
IntentLoopMerge ==
    (/\ orch = "interactive_voice"
     /\ pc = "iv_intent_loop"
     /\ ~ RequiredFieldsPresent(state)) =>
        state' = [state EXCEPT
                    !.party_size     = MergeField(@, IterationUpdate(loc').party_size),
                    !.cuisine_type   = MergeField(@, IterationUpdate(loc').cuisine_type),
                    !.location       = MergeField(@, IterationUpdate(loc').location),
                    !.requested_date = MergeField(@, IterationUpdate(loc').date),
                    !.requested_time = MergeField(@, IterationUpdate(loc').time)]

IntentLoopOnce ==
    orch = "interactive_voice" =>
       /\ (pc = "iv_intent_loop" /\ RequiredFieldsPresent(state)) =>
             /\ pc' # "iv_intent_loop"
             /\ loc'.listens = loc.listens
             /\ loc'.calendar_checks = loc.calendar_checks + 1
       /\ pc \notin {"iv_parse_intent", "iv_intent_loop"} =>
             /\ pc' # "iv_intent_loop"
             /\ loc'.listens = loc.listens
       /\ loc'.calendar_checks # loc.calendar_checks =>
             /\ RequiredFieldsPresent(state)
             /\ RequiredFieldsPresent(state')
       /\ (pc = "iv_intent_loop" /\ ~ RequiredFieldsPresent(state)) =>
             /\ pc' = "iv_intent_loop"
             /\ loc'.calendar_checks = loc.calendar_checks

\* C23: the listening loop is entered once, after the parse and before the
\* first calendar check; with the five fields present its next step leaves
\* it for the calendar check and awaits no utterance; it is never entered
\* again; no calendar check is made while a required field is missing.
C23_IntentLoopOnceBeforeCheck == [][IntentLoopOnce]_vars

\* the loop was left after two utterances and the calendar was checked
C23_Witness ==
    /\ orch = "interactive_voice"
    /\ loc.listens = 2
    /\ loc.calendar_checks = 1
    /\ RequiredFieldsPresent(state)
    /\ pc = "iv_search_restaurants"

\* a selection handler has been applied to a list that is not empty
SelectedFromCandidates ==
    /\ pc \in {"unit_select_restaurant", "unit_voice_select_restaurant",
               "unit_select_restaurant_with_options"}
    /\ state.restaurant_candidates # << >>

\* the first three candidates of the list
FirstThree(candidates) ==
    { candidates[i] : i \in 1..(IF Len(candidates) < 3 THEN Len(candidates) ELSE 3) }

\* C24: with a candidate list that is not empty and no index chosen by the
\* user, the selected candidate is one of the first three of the list and
\* none of the first three has a higher rating, for every list and every
\* assignment of ratings.
C24_HighestOfFirstThree ==
    SelectedFromCandidates =>
        /\ state.selected_restaurant \in FirstThree(state.restaurant_candidates)
        /\ \A r \in FirstThree(state.restaurant_candidates) :
              r.rating <= state.selected_restaurant.rating

\* C25: select_restaurant applied to a candidate list that is not empty
\* selects the first candidate of the list, whatever the ratings.
C25_SelectsFirstCandidate ==
    (pc = "unit_select_restaurant" /\ state.restaurant_candidates # << >>) =>
        state.selected_restaurant = state.restaurant_candidates[1]

\* the first candidate was selected although a later one is rated higher
C25_Witness ==
    /\ pc = "unit_select_restaurant"
    /\ Len(state.restaurant_candidates) >= 2
    /\ state.restaurant_candidates[1].rating < state.restaurant_candidates[2].rating
    /\ state.selected_restaurant = state.restaurant_candidates[1]

\* the option the driver named when asked which one, 0 when none was named
ChosenOption(user_response) ==
    CASE user_response = "option 2" -> 2
      [] user_response = "option 4" -> 4
      [] OTHER -> 0

\* the options presented: the first three candidates at most
NumOptions(s) ==
    IF Len(s.restaurant_candidates) < 3 THEN Len(s.restaurant_candidates) ELSE 3

\* C26: when the driver names option i of the N presented options, the
\* session selects the i-th presented candidate.
C26_UserChoiceSelected ==
    (/\ orch = "interactive_voice"
     /\ Returned
     /\ loc.attempt > 0
     /\ ChosenOption(loc.user_response) \in 1..NumOptions(state)) =>
        result.selected_restaurant =
            state.restaurant_candidates[ChosenOption(loc.user_response)]

\* the selection handler of the session has just run on an empty list
SelectedFromEmptyList ==
    /\ pc \in {"prepare_call", "adv_prepare_call"}
    /\ state.restaurant_candidates = << >>

\* the selection handler of the session has run and found no candidate
SelectionFoundNothing ==
    /\ pc \notin {"parse_intent", "check_calendar", "search_restaurants",
                  "select_restaurant", "adv_parse_intent",
                  "adv_search_restaurants", "adv_select_restaurant"}
    /\ orch \in GraphOrchs \cup {"advanced"}
    /\ state.restaurant_candidates = << >>

\* C27: when the selection handler runs on an empty candidate list it
\* records the error "No restaurants found" and leaves no restaurant
\* selected; from then on the session contacts no provider and does not
\* complete.
C27_EmptyListIsAnError ==
    /\ SelectedFromEmptyList =>
          /\ \E i \in 1..Len(state.errors) : state.errors[i] = "No restaurants found"
          /\ state.selected_restaurant = NoRestaurant
    /\ SelectionFoundNothing =>
          /\ state.selected_restaurant = NoRestaurant
          /\ ~ state.call_connected
          /\ state.twilio_call_sid = None
          /\ ~ state.booking_confirmed
          /\ state.status # COMPLETED

\* the search of the session has returned and the selection comes next
SelectionComesNext ==
    pc \in {"select_restaurant", "adv_select_restaurant", "iv_selection_loop"}

\* C28: when the restaurant search returns an empty list the selection is
\* not invoked: the session records an error and its status is Failed.
C28_EmptySearchIsFatal ==
    /\ SelectionComesNext => state.restaurant_candidates # << >>
    /\ (/\ Returned
        /\ state.restaurant_candidates = << >>
        /\ RequiredFieldsPresent(state)
        /\ state.driver_calendar_free) =>
          /\ result.status = FAILED
          /\ Len(result.errors) > 0

\* the session is over: it returned to its caller or raised
SessionOver == pc \in {"returned", "raised"}

\* C29: every session terminates, whatever the user and the collaborators
\* answer, a permanently silent user included.
C29_SessionTerminates == <>SessionOver

\* what a session hears when it runs alone: the first answer of a voice
\* processor that nobody else has used
HeardAlone == transcribe(VoiceProcessor)

\* the booking a session that runs alone asks for
RequestedAlone ==
    LET s == parse_intent_demo(DrivingBookingState(2), HeardAlone)
    IN  << s.party_size, s.cuisine_type, s.location, s.requested_date, s.requested_time >>

\* C30: sessions that run side by side do not read what another one wrote:
\* each session transcribes the utterance, and returns the booking request,
\* that it transcribes and returns when it runs alone.
C30_SessionsIndependent ==
    \A i \in DOMAIN sessions :
       /\ sessions[i].heard => sessions[i].utterance = HeardAlone
       /\ sessions[i].pc = "returned" =>
             << sessions[i].result.party_size, sessions[i].result.cuisine_type,
                sessions[i].result.location, sessions[i].result.requested_date,
                sessions[i].result.requested_time >> = RequestedAlone

\* the answers that decline in so many words, and those that agree
ExplicitDeclines == { Text("no"), Text("No"), Text("NO") }

Affirmatives == { Text("yes"), Text("Yes now"), Text("ok") }

Silences == { Text(""), Text(" ") }

ContactOrConverseExecuted ==
    \/ pc \in {"iv_converse"}
    \/ state.call_connected
    \/ state.turn_count > 0

C32_ReturnedEqualsLastState ==
    Returned => result = state

\* the four fields of an outcome that a variant shares with the base engine
SameOutcome(a, b) ==
    /\ a.status = b.status
    /\ a.selected_restaurant = b.selected_restaurant
    /\ a.booking_confirmed = b.booking_confirmed
    /\ a.confirmation_number = b.confirmation_number

\* C33: a variant orchestrator ends like the base engine run on the same
\* settings, utterance and collaborator answers: the interactive and the
\* advanced variant hand back an outcome (status, selected candidate,
\* booking_confirmed, confirmation number) that BookingOrchestrator can
\* hand back, and the voice-integrated variant selects from its candidate
\* list the candidate the base selection step selects from that list.
C33_VariantsEndLikeBase ==
    /\ Returned /\ orch \in {"interactive", "advanced"} =>
          \E b \in run_booking_session(DrivingBookingState(state.max_retries)) :
             SameOutcome(result, b)
    /\ Returned /\ orch = "voice_integrated" /\ state.restaurant_candidates # << >> =>
          \A s \in select_restaurant(state) :
             result.selected_restaurant \in {NoRestaurant, s.selected_restaurant}

\* a step of a session as far as retry_count goes: left as it is, or raised
\* by one by the HandleError step entered with budget left
RetryCountStep ==
    \/ state'.retry_count = state.retry_count
    \/ /\ pc = "handle_error"
       /\ state.retry_count < state.max_retries
       /\ state'.retry_count = state.retry_count + 1

\* C34: retry_count never decreases and changes only inside HandleError,
\* by exactly one per execution and only when retry_count < max_retries on
\* entry; every other step and both routers leave it unchanged.
C34_RetryCountOnlyInHandleError == [][RetryCountStep]_vars

C34_Witness ==
    /\ pc = "route_error_recovery"
    /\ state.retry_count = 2
    /\ state.max_retries = 2

IsPrefix(old, new) ==
    /\ Len(old) <= Len(new)
    /\ \A i \in 1..Len(old) : new[i] = old[i]

\* a transition keeps every recorded error: in the session state, and in
\* the object handed back when the transition is the return
ErrorsAppendOnlyStep ==
    /\ IsPrefix(state.errors, state'.errors)
    /\ result' # result => IsPrefix(state.errors, result'.errors)

\* C35: errors is append-only within one session: in every transition
\* (a step, a loop iteration with its reset in the busy branch, the
\* reconstruction of the result) the new errors list has the old one as a
\* prefix.
C35_ErrorsAppendOnly == [][ErrorsAppendOnlyStep]_vars

\* the session state alone
C35_StateErrorsStep == IsPrefix(state.errors, state'.errors)

C35_StateErrorsAppendOnly == [][C35_StateErrorsStep]_vars

\* the declared graph, as the claim gives it
DeclaredSteps ==
    {"parse_intent", "check_calendar", "search_restaurants", "select_restaurant",
     "prepare_call", "make_call", "converse", "confirm_booking", "handle_error"}

DeclaredSuccessor(step) ==
    CASE step = "parse_intent"       -> "check_calendar"
      [] step = "check_calendar"     -> "search_restaurants"
      [] step = "search_restaurants" -> "select_restaurant"
      [] step = "select_restaurant"  -> "prepare_call"
      [] step = "prepare_call"       -> "make_call"
      [] step = "make_call"          -> "converse"
      [] step = "confirm_booking"    -> "END"

DeclaredTarget(label) ==
    CASE label = "booking_confirmed" -> "confirm_booking"
      [] label = "need_alternatives" -> "search_restaurants"
      [] label = "error"             -> "handle_error"
      [] label = "timeout"           -> "handle_error"
      [] label = "retry"             -> "make_call"
      [] label = "fallback"          -> "confirm_booking"
      [] label = "abandon"           -> "END"

ConversationLabels == {"booking_confirmed", "need_alternatives", "error", "timeout"}

RecoveryLabels == {"retry", "fallback", "abandon"}

\* the steps the workflow can go to from a step, by the edges it was built with
Successors(step) ==
    CASE step = "END"          -> {}
      [] step = "converse"     -> { conversation_edge(l) : l \in ConversationLabels }
      [] step = "handle_error" -> { error_recovery_edge(l) : l \in RecoveryLabels }
      [] OTHER                 -> { static_edge(step) }

RECURSIVE ReachableFrom(_, _)
ReachableFrom(steps, n) ==
    IF n = 0 THEN steps
    ELSE ReachableFrom(steps \cup UNION { Successors(s) : s \in steps }, n - 1)

StaticallyReachable ==
    /\ DeclaredSteps \subseteq ReachableFrom({"parse_intent"}, Cardinality(DeclaredSteps))
    /\ \A s \in DeclaredSteps : "END" \in ReachableFrom({s}, Cardinality(DeclaredSteps))

\* one move of the workflow: from a step to its static successor (or out
\* of the workflow when the step raises), from Converse and HandleError to
\* their router, from a router to the step its label selects
GraphPathStep ==
    (orch \in GraphOrchs /\ pc' # pc) =>
       /\ pc \in DeclaredSteps \ {"converse", "handle_error"} =>
             pc' \in {DeclaredSuccessor(pc), "except"}
       /\ pc = "converse" => pc' = "route_conversation"
       /\ pc = "handle_error" => pc' = "route_error_recovery"
       /\ pc = "route_conversation" =>
             route' \in ConversationLabels /\ pc' = DeclaredTarget(route')
       /\ pc = "route_error_recovery" =>
             route' \in RecoveryLabels /\ pc' = DeclaredTarget(route')

GraphEntry == orch \in GraphOrchs => pc = "parse_intent"

\* C36: the steps executed in one session of the graph workflow form a
\* path of the declared graph that starts at ParseIntent (each next step
\* is the static successor of the previous one or the step selected by the
\* router label), and all nine declared steps are statically reachable
\* from ParseIntent with the end reachable from each of them.
C36_StepsFollowDeclaredGraph ==
    GraphEntry /\ StaticallyReachable /\ [][GraphPathStep]_vars

C36_Witness ==
    /\ orch \in GraphOrchs
    /\ route = "retry"
    /\ pc = "converse"
    /\ state.turn_count > 1

\* C37: in the graph workflow booking_confirmed is false every time the
\* router after HandleError is evaluated, the router never returns
\* fallback, and the edge from HandleError to ConfirmBooking is never taken.
C37_FallbackNeverTaken ==
    orch \in GraphOrchs =>
       /\ pc = "route_error_recovery" => ~ state.booking_confirmed
       /\ route # "fallback"

\* the router is evaluated with the retry budget used up, where the test
\* of booking_confirmed decides between fallback and abandon
C37_Witness ==
    /\ orch \in GraphOrchs
    /\ pc = "route_error_recovery"
    /\ ~ can_retry(state)
    /\ state.retry_count > 0

Max(a, b) == IF a >= b THEN a ELSE b

\* C38: in the graph workflow started with retry_count = 0, the retry edge
\* from HandleError to Contact is taken at most max(max_retries - 1, 0)
\* times and HandleError is executed at most max(max_retries, 1) times in
\* one session (HandleError increments retry_count before the router
\* evaluates CanRetry).
C38_RetryEdgeBudget ==
    orch \in GraphOrchs =>
       /\ loc.retries <= Max(state.max_retries - 1, 0)
       /\ loc.handle_errors <= Max(state.max_retries, 1)

C38_Witness ==
    /\ orch \in GraphOrchs
    /\ state.max_retries = 2
    /\ loc.retries = 1
    /\ loc.handle_errors = 2
    /\ pc = "END"

\* a move of the graph workflow: errors keeps what was recorded, and an
\* evaluation of the Converse router made with an error on record, or
\* after a retry, does not answer need_alternatives (nor, with an error on
\* record, timeout)
ErrorsStickStep ==
    orch \in GraphOrchs =>
       /\ IsPrefix(state.errors, state'.errors)
       /\ (pc = "route_conversation" /\ pc' # pc /\ has_errors(state)) =>
             route' \in {"booking_confirmed", "error"}
       /\ (pc = "route_conversation" /\ pc' # pc /\ loc.retries > 0) =>
             pc' \in {"confirm_booking", "handle_error"}

\* C39: in the graph workflow errors is never cleared, so after the first
\* error is recorded every later evaluation of the Converse router returns
\* booking_confirmed or error, never need_alternatives or timeout; a retry
\* leads back to HandleError unless Converse confirms the booking.
C39_ErrorsDecideRouting == [][ErrorsStickStep]_vars

\* the router has answered error a second time, after a retry
C39_Witness ==
    /\ orch \in GraphOrchs
    /\ pc = "handle_error"
    /\ route = "error"
    /\ loc.retries > 0
    /\ has_errors(state)

\* the workflow has been left: its end was reached or a step raised
WorkflowEnded ==
    pc \notin DeclaredSteps \cup {"route_conversation", "route_error_recovery"}

ConverseWithinBound ==
    orch \in GraphOrchs =>
       loc.converses <= Max(max_conversation_turns, 1) + state.max_retries

\* C40: every execution of the graph workflow reaches the end after
\* finitely many steps, for every max_turns >= 0, every max_retries >= 0
\* and every step outcome, and Converse is executed at most
\* max(max_turns, 1) + max_retries times in one session.
C40_GraphWorkflowReachesEnd ==
    /\ orch \in GraphOrchs => <>(pc = "END")
    /\ []ConverseWithinBound

\* what does hold: the workflow is left after finitely many steps, at its
\* end or by the exception of a step, within the bound on Converse
C40_GraphWorkflowIsLeft ==
    /\ orch \in GraphOrchs => <>WorkflowEnded
    /\ []ConverseWithinBound

====
